---- MODULE Spec2Model ----
(***************************************************************************)
(* Model of s3-sync-changes.py: one invocation of sync() (and a second     *)
(* one after it) over a small local tree and a remote listing.             *)
(*                                                                         *)
(* Strings are sequences of one-character strings.  The character "X"      *)
(* stands for a file-name byte that is not valid UTF-8: os.walk returns it *)
(* as a lone surrogate, which print() cannot encode on a stream whose      *)
(* error handler is "strict".  The output is the stream of writes made to *)
(* sys.stdout: print() writes its text and then the newline, as two writes.*)
(***************************************************************************)
EXTENDS Integers, Sequences, FiniteSets, TLC

VARIABLES
    fs,              \* local file contents: path -> sequence of bytes
    unreadableFiles, \* paths whose open() raises
    unreadableDirs,  \* directories whose scandir() raises
    remote,          \* object store listing: key -> ETag (domain = keys present)
    prefix,          \* key prefix parsed from the destination
    excludes,        \* --exclude patterns
    workers,         \* --workers
    dryrun,          \* --dryrun
    verbose,         \* --verbose
    stdoutStrict,    \* sys.stdout.errors == "strict"
    run,             \* number of the current invocation of sync()
    pc,              \* position of the main thread in sync()
    files,           \* result of discover_files
    to_upload,       \* result of plan_uploads
    tstate,          \* position of each submitted upload_file call
    lock,            \* holder of the Lock (0 = free)
    output,          \* writes made to stdout so far in this invocation
    puts,            \* put-object calls issued to the object store
    cause,           \* exception that ended sync(), if any
    listed,          \* outcome of the list-objects-v2 call of this invocation
    prevClean        \* the previous invocation returned with every task ok

inputs == <<fs, unreadableFiles, unreadableDirs, remote, prefix, excludes,
            workers, dryrun, verbose, stdoutStrict>>
vars == <<fs, unreadableFiles, unreadableDirs, remote, prefix, excludes,
          workers, dryrun, verbose, stdoutStrict,
          run, pc, files, to_upload, tstate, lock, output, puts, cause, listed, prevClean>>

----------------------------------------------------------------------------
(* Bounds *)

MaxWorkers == 2
MaxRuns == 2
chunk_size == 2

----------------------------------------------------------------------------
(* The local tree: root/a and root/d/X.  os.walk is top-down, so the root's *)
(* file is yielded before the file of the subdirectory.                    *)

RootFiles == << <<"a">> >>
RootDirs == << <<"d">> >>
DirFiles == << <<"X">> >>

PathA == <<"a">>
PathDX == <<"d", "/", "X">>
Paths == {PathA, PathDX}

----------------------------------------------------------------------------
(* Fingerprint engine *)

\* None, as returned by get_local_etag for an empty file and by dict.get for
\* a missing key; it has the shape of an ETag so that it can be compared.
None == [hex |-> -1, parts |-> -1]

Pair(a, b) == ((a + b) * (a + b + 1)) \div 2 + b

\* hashlib.md5 as a collision-free function of the data
RECURSIVE md5(_)
md5(data) == IF data = <<>> THEN 0 ELSE Pair(Head(data), md5(Tail(data))) + 1

\* the successive f.read(chunk_size) results
RECURSIVE read_chunks(_)
read_chunks(data) ==
    IF data = <<>> THEN <<>>
    ELSE IF Len(data) <= chunk_size THEN <<data>>
    ELSE <<SubSeq(data, 1, chunk_size)>> \o read_chunks(SubSeq(data, chunk_size + 1, Len(data)))

etag_of_bytes(data) ==
    LET chunks == read_chunks(data)
        md5s == [i \in 1..Len(chunks) |-> md5(chunks[i])]
    IN IF md5s = <<>> THEN None
       ELSE IF Len(md5s) = 1 THEN [hex |-> md5(data), parts |-> 0]
       ELSE [hex |-> md5(md5s), parts |-> Len(md5s)]

get_local_etag(path) ==
    IF path \in unreadableFiles
    THEN [raised |-> TRUE, etag |-> None]
    ELSE [raised |-> FALSE, etag |-> etag_of_bytes(fs[path])]

----------------------------------------------------------------------------
(* Tree walker *)

\* the characters of the model in code-point order ("X" is U+DCFF)
CharOrder == <<"!", "*", "-", "/", "?", "[", "]", "a", "b", "c", "d", "p", "X">>
Ord(c) == CHOOSE n \in DOMAIN CharOrder : CharOrder[n] = c

RECURSIVE FindClose(_, _)
FindClose(pat, j) ==
    IF j > Len(pat) THEN 0 ELSE IF pat[j] = "]" THEN j ELSE FindClose(pat, j + 1)

\* position of the "]" that closes the class opened at pat[1] = "[", or 0
ClassEnd(pat) ==
    LET j1 == IF 2 <= Len(pat) /\ pat[2] = "!" THEN 3 ELSE 2
        j2 == IF j1 <= Len(pat) /\ pat[j1] = "]" THEN j1 + 1 ELSE j1
    IN FindClose(pat, j2)

RECURSIVE ClassHas(_, _, _)
ClassHas(body, k, c) ==
    IF k > Len(body) THEN FALSE
    ELSE IF k + 2 <= Len(body) /\ body[k + 1] = "-"
         THEN \/ (Ord(body[k]) <= Ord(c) /\ Ord(c) <= Ord(body[k + 2]))
              \/ ClassHas(body, k + 3, c)
         ELSE body[k] = c \/ ClassHas(body, k + 1, c)

InClass(stuff, c) ==
    IF stuff[1] = "!" THEN ~ClassHas(Tail(stuff), 1, c) ELSE ClassHas(stuff, 1, c)

RECURSIVE fnmatch(_, _)
fnmatch(name, pat) ==
    IF pat = <<>> THEN name = <<>>
    ELSE IF Head(pat) = "*"
         THEN fnmatch(name, Tail(pat)) \/ (name # <<>> /\ fnmatch(Tail(name), pat))
         ELSE IF name = <<>> THEN FALSE
         ELSE IF Head(pat) = "?" THEN fnmatch(Tail(name), Tail(pat))
         ELSE IF Head(pat) = "[" /\ ClassEnd(pat) # 0
              THEN LET j == ClassEnd(pat)
                   IN /\ InClass(SubSeq(pat, 2, j - 1), Head(name))
                      /\ fnmatch(Tail(name), SubSeq(pat, j + 1, Len(pat)))
              ELSE Head(pat) = Head(name) /\ fnmatch(Tail(name), Tail(pat))

is_excluded(rel_key, excl) == \E pattern \in excl : fnmatch(rel_key, pattern)

RECURSIVE Flatten(_)
Flatten(ss) == IF ss = <<>> THEN <<>> ELSE Head(ss) \o Flatten(Tail(ss))

discover_files(excl, badDirs) ==
    LET keep(k) == ~is_excluded(k, excl)
        rootKeys == SelectSeq(RootFiles, keep)
        dirs == SelectSeq(RootDirs, keep)
        sub(d) == IF d \in badDirs
                  THEN <<>>
                  ELSE SelectSeq([i \in 1..Len(DirFiles) |-> d \o <<"/">> \o DirFiles[i]], keep)
    IN rootKeys \o Flatten([i \in 1..Len(dirs) |-> sub(dirs[i])])

----------------------------------------------------------------------------
(* Output *)

\* the text written by one print() call
Line(kind, idx, total, key) == [kind |-> kind, idx |-> idx, total |-> total, key |-> key]

\* the newline print() writes after its text
NL == Line("nl", 0, 0, <<>>)

\* the writes of one print() call made with no other thread running
print_writes(text) == <<text, NL>>

\* the warning printed before sync() is called (its text ends in a newline)
Banner == print_writes(Line("warning", 0, 0, <<>>))

\* print(str) raises UnicodeEncodeError for a lone surrogate on a strict stream
CanPrint(key) == ~stdoutStrict \/ \A i \in 1..Len(key) : key[i] # "X"

----------------------------------------------------------------------------
(* Remote state lister and diff planner *)

get_remote_etags(listing) ==
    IF listing.ok
    THEN [raised |-> FALSE, etags |-> listing.contents]
    ELSE [raised |-> TRUE, etags |-> << >>]

RECURSIVE lstrip(_)
lstrip(key) == IF key # <<>> /\ Head(key) = "/" THEN lstrip(Tail(key)) ELSE key

dest_key(pfx, rel_key) ==
    lstrip(IF pfx # <<>> THEN pfx \o <<"/">> \o rel_key ELSE rel_key)

dict_get(etags, key) == IF key \in DOMAIN etags THEN etags[key] ELSE None

RECURSIVE plan_loop(_, _, _, _, _, _)
plan_loop(fl, i, remote_etags, pfx, verb, acc) ==
    IF i > Len(fl) THEN acc
    ELSE LET key == dest_key(pfx, fl[i])
             local == get_local_etag(fl[i])
             remote_etag == dict_get(remote_etags, key)
         IN IF local.raised
            THEN [acc EXCEPT !.err = "read"]
            ELSE IF local.etag # remote_etag
                 THEN IF verb /\ ~CanPrint(key)
                      THEN [acc EXCEPT !.err = "print"]
                      ELSE plan_loop(fl, i + 1, remote_etags, pfx, verb,
                             [acc EXCEPT
                                !.out = IF verb THEN @ \o print_writes(Line("scheduling", 0, 0, key)) ELSE @,
                                !.plan = Append(@, [key |-> key, path |-> fl[i]])])
                 ELSE plan_loop(fl, i + 1, remote_etags, pfx, verb, acc)

\* plan_uploads with the listing error swallowed: plans against an empty remote state
plan_uploads_ignore_list_error(fl, listing, pfx, verb) ==
    LET r == get_remote_etags(listing)
    IN plan_loop(fl, 1, r.etags, pfx, verb, [err |-> "none", plan |-> <<>>, out |-> <<>>])

plan_uploads(fl, listing, pfx, verb) ==
    LET r == get_remote_etags(listing)
    IN IF r.raised
       THEN [err |-> "list", plan |-> <<>>, out |-> <<>>]
       ELSE plan_loop(fl, 1, r.etags, pfx, verb, [err |-> "none", plan |-> <<>>, out |-> <<>>])

----------------------------------------------------------------------------
(* Upload scheduler *)

\* the put-object calls one upload_file call issues
upload_puts(task, dry) == {}

Running(ts) ==
    {i \in DOMAIN ts :
        ts[i] \in {"print_cmd", "print_cmd_nl", "wait_lock", "print_progress", "print_progress_nl"}}
Resolved(ts) == {i \in DOMAIN ts : ts[i] \in {"ok", "failed"}}

\* a fail-fast wait: gives up on the pool as soon as one task has failed
all_completed_failfast(ts) ==
    \/ Resolved(ts) = DOMAIN ts
    \/ \E i \in DOMAIN ts : ts[i] = "failed"

\* the as_completed loop and the executor's shutdown have finished
all_completed(ts) == Resolved(ts) = DOMAIN ts

----------------------------------------------------------------------------
(* Initial states *)

Contents == {<<>>, <<1>>, <<1, 1, 1>>}
EmptyObjectETag == [hex |-> md5(<<>>), parts |-> 0]
ExcludeChoices == {{}, {<<"d">>}, {<<"*", "X">>}, {<<"[", "!", "a", "]">>}}
PrefixChoices == {<<>>, <<"p">>}

RemoteChoices(pfx) ==
    LET ka == dest_key(pfx, PathA)
        kx == dest_key(pfx, PathDX)
        forA == {<< >>} \cup {(ka :> e) : e \in {etag_of_bytes(<<1>>), etag_of_bytes(<<1, 1, 1>>), EmptyObjectETag}}
        forX == {<< >>, (kx :> etag_of_bytes(<<1>>))}
    IN {a @@ x : a \in forA, x \in forX}

Init ==
    /\ fs \in {[p \in Paths |-> IF p = PathA THEN c ELSE <<1>>] : c \in Contents}
    /\ unreadableFiles \in {{}, {PathDX}}
    /\ unreadableDirs \in {{}, {<<"d">>}}
    /\ prefix \in PrefixChoices
    /\ remote \in RemoteChoices(prefix)
    /\ excludes \in ExcludeChoices
    /\ workers \in 1..MaxWorkers
    /\ dryrun \in BOOLEAN
    /\ verbose \in BOOLEAN
    /\ stdoutStrict \in BOOLEAN
    /\ run = 1
    /\ pc = "start"
    /\ files = <<>>
    /\ to_upload = <<>>
    /\ tstate = <<>>
    /\ lock = 0
    /\ output = Banner
    /\ puts = {}
    /\ cause = "none"
    /\ listed = "pending"
    /\ prevClean = FALSE

----------------------------------------------------------------------------
(* sync(): main thread *)

Discover ==
    /\ pc = "start"
    /\ files' = discover_files(excludes, unreadableDirs)
    /\ pc' = "plan"
    /\ UNCHANGED <<inputs, run, to_upload, tstate, lock, output, puts, cause, listed, prevClean>>

Plan ==
    /\ pc = "plan"
    /\ \E ok \in BOOLEAN :
         LET r == plan_uploads(files, [ok |-> ok, contents |-> remote], prefix, verbose)
             total == Len(r.plan)
         IN /\ listed' = IF ok THEN "ok" ELSE "failed"
            /\ IF r.err # "none"
               THEN /\ pc' = "aborted"
                    /\ cause' = r.err
                    /\ output' = output \o r.out
                    /\ UNCHANGED <<to_upload, tstate>>
               ELSE IF total = 0
                    THEN /\ pc' = "returned"
                         /\ output' = output \o r.out \o print_writes(Line("uptodate", 0, 0, <<>>))
                         /\ UNCHANGED <<to_upload, tstate, cause>>
                    ELSE /\ pc' = "executing"
                         /\ output' = output \o r.out \o print_writes(Line("uploading", 0, total, <<>>))
                         /\ to_upload' = r.plan
                         /\ tstate' = [i \in 1..total |-> "queued"]
                         /\ UNCHANGED cause
    /\ UNCHANGED <<inputs, run, files, lock, puts, prevClean>>

Join ==
    /\ pc = "executing"
    /\ all_completed(tstate)
    /\ pc' = "returned"
    /\ UNCHANGED <<inputs, run, files, to_upload, tstate, lock, output, puts, cause, listed, prevClean>>

Rerun ==
    /\ pc \in {"returned", "aborted"}
    /\ run < MaxRuns
    /\ run' = run + 1
    /\ prevClean' = (pc = "returned" /\ \A i \in DOMAIN tstate : tstate[i] = "ok")
    /\ pc' = "start"
    /\ files' = <<>>
    /\ to_upload' = <<>>
    /\ tstate' = <<>>
    /\ output' = Banner
    /\ cause' = "none"
    /\ listed' = "pending"
    /\ UNCHANGED <<inputs, lock, puts>>

----------------------------------------------------------------------------
(* upload_file(): one call per task, run by the pool's threads *)

Start ==
    \E i \in DOMAIN tstate :
      /\ pc = "executing"
      /\ tstate[i] = "queued"
      /\ \A j \in 1..(i - 1) : tstate[j] # "queued"
      /\ Cardinality(Running(tstate)) < workers
      /\ tstate' = [tstate EXCEPT ![i] = IF verbose THEN "print_cmd" ELSE "wait_lock"]
      /\ UNCHANGED <<inputs, run, pc, files, to_upload, lock, output, puts, cause, listed, prevClean>>

PrintCmd ==
    \E i \in DOMAIN tstate :
      /\ tstate[i] = "print_cmd"
      /\ output' = Append(output, Line("cmd", i, Len(to_upload), to_upload[i].key))
      /\ tstate' = [tstate EXCEPT ![i] = "print_cmd_nl"]
      /\ UNCHANGED <<inputs, run, pc, files, to_upload, lock, puts, cause, listed, prevClean>>

PrintCmdNl ==
    \E i \in DOMAIN tstate :
      /\ tstate[i] = "print_cmd_nl"
      /\ output' = Append(output, NL)
      /\ tstate' = [tstate EXCEPT ![i] = "wait_lock"]
      /\ UNCHANGED <<inputs, run, pc, files, to_upload, lock, puts, cause, listed, prevClean>>

Acquire ==
    \E i \in DOMAIN tstate :
      /\ tstate[i] = "wait_lock"
      /\ lock = 0
      /\ puts' = puts \cup upload_puts(to_upload[i], dryrun)
      /\ lock' = i
      /\ tstate' = [tstate EXCEPT ![i] = "print_progress"]
      /\ UNCHANGED <<inputs, run, pc, files, to_upload, output, cause, listed, prevClean>>

PrintProgress ==
    \E i \in DOMAIN tstate :
      /\ tstate[i] = "print_progress"
      /\ lock = i
      /\ IF CanPrint(to_upload[i].key)
         THEN /\ output' = Append(output, Line("uploaded", i, Len(to_upload), to_upload[i].key))
              /\ tstate' = [tstate EXCEPT ![i] = "print_progress_nl"]
              /\ lock' = lock
         ELSE /\ output' = output
              /\ tstate' = [tstate EXCEPT ![i] = "failed"]
              /\ lock' = 0
      /\ UNCHANGED <<inputs, run, pc, files, to_upload, puts, cause, listed, prevClean>>

PrintProgressNl ==
    \E i \in DOMAIN tstate :
      /\ tstate[i] = "print_progress_nl"
      /\ lock = i
      /\ output' = Append(output, NL)
      /\ tstate' = [tstate EXCEPT ![i] = "ok"]
      /\ lock' = 0
      /\ UNCHANGED <<inputs, run, pc, files, to_upload, puts, cause, listed, prevClean>>

Next ==
    \/ Discover \/ Plan \/ Join \/ Rerun
    \/ Start \/ PrintCmd \/ PrintCmdNl \/ Acquire \/ PrintProgress \/ PrintProgressNl

Spec == Init /\ [][Next]_vars

FairSpec == Spec /\ WF_vars(Next)

----------------------------------------------------------------------------
(* Helpers of the properties *)

Range(seq) == {seq[n] : n \in DOMAIN seq}
Planned == pc \in {"executing", "returned"}
Ended == pc \in {"returned", "aborted"}
UploadedLines(i) ==
    {n \in DOMAIN output : output[n] = Line("uploaded", i, Len(to_upload), to_upload[i].key)}
Emitting ==
    {i \in DOMAIN tstate :
        tstate[i] \in {"print_cmd", "print_cmd_nl", "print_progress", "print_progress_nl"}}
Mismatch(f) ==
    LET key == dest_key(prefix, f)
    IN key \notin DOMAIN remote \/ get_local_etag(f).etag # remote[key]

----------------------------------------------------------------------------
(* Properties *)

\* C1: with dry-run off, a task is reported as "Uploaded" only if a put of its
\* source file at its destination key was issued to the object store.
C1_UploadedImpliesPut ==
    ~dryrun =>
        \A i \in DOMAIN tstate :
            tstate[i] = "ok" => [key |-> to_upload[i].key, body |-> to_upload[i].path] \in puts

\* C2: once the plan is built, a discovered entry is in the plan iff its
\* destination key is absent from the remote state or its local fingerprint
\* differs from the remote one.
C2_PlanIffMismatch ==
    (Planned /\ listed = "ok") =>
        \A f \in Range(files) :
            (\E i \in DOMAIN to_upload : to_upload[i].path = f) <=> Mismatch(f)

\* C3: the plan of a run that follows a run with dry-run off in which every
\* upload succeeded is empty.
C3_SecondRunPlansNothing ==
    (run > 1 /\ prevClean /\ ~dryrun /\ Planned) =>
        to_upload = <<>>

\* C4: a run in which an upload task failed does not end in success.
C4_FailureObservable ==
    pc = "returned" => \A i \in DOMAIN tstate : tstate[i] # "failed"

\* C5: sync returns only after every task of the plan has resolved to success
\* or failure, whatever tasks failed, and a run that started uploading does return.
C5_AllTasksResolve ==
    /\ [](pc = "returned" =>
            /\ DOMAIN tstate = DOMAIN to_upload
            /\ \A i \in DOMAIN to_upload : tstate[i] \in {"ok", "failed"})
    /\ (pc = "executing" ~> pc = "returned")

C5_Witness ==
    /\ pc = "returned"
    /\ \E i, j \in DOMAIN tstate : tstate[i] = "failed" /\ tstate[j] = "ok"

\* C6: an unreadable local file does not stop the run: the run returns, and
\* every readable mismatching entry is reported as uploaded.
C6_UnreadableFileSkipped ==
    (Ended /\ listed = "ok" /\ cause # "print" /\ \E f \in Range(files) : f \in unreadableFiles) =>
        /\ pc = "returned"
        /\ \A i \in DOMAIN to_upload : to_upload[i].path \notin unreadableFiles
        /\ \A f \in Range(files) :
              (f \notin unreadableFiles /\ Mismatch(f)) =>
                  \E i \in DOMAIN to_upload : to_upload[i].path = f /\ tstate[i] \in {"ok", "failed"}

\* C7: when a non-excluded directory cannot be read, no plan is produced and
\* the run does not complete.
C7_UnreadableDirAborts ==
    (\E n \in DOMAIN RootDirs :
        RootDirs[n] \in unreadableDirs /\ ~is_excluded(RootDirs[n], excludes)) =>
        ~Planned

\* C8: when the remote listing fails, the run aborts with no task submitted,
\* no put issued and no file compared or reported.
C8_ListFailureAborts ==
    listed = "failed" =>
        /\ pc = "aborted"
        /\ to_upload = <<>>
        /\ tstate = <<>>
        /\ puts = {}
        /\ output = Banner

C8_Witness ==
    /\ listed = "failed"
    /\ pc = "aborted"
    /\ \E f \in Range(files) : Mismatch(f)

\* C9: in dry-run mode no put is issued, and when the run returns every task
\* of the plan has been reported exactly once with its index and the total.
C9_DryRunReportsAll ==
    dryrun =>
        /\ puts = {}
        /\ pc = "returned" => \A i \in DOMAIN to_upload : Cardinality(UploadedLines(i)) = 1

\* C10: a worker that is writing to the output stream holds the lock, so no
\* two workers write at the same time.
C10_OutputUnderLock ==
    /\ \A i \in Emitting : lock = i
    /\ Cardinality(Emitting) <= 1

====
